---- MODULE Spec2Model ----
(***************************************************************************)
(* Flamingo: the message route of the server (registerRoutes, POST         *)
(* /api/conversations/:id/messages), the coordination round                *)
(* (coordinateAIResponse), the keyword classifier (analyzeMessage) and the *)
(* specialist registry (getSpecialistResponse); and the chat page of the   *)
(* client (Chat), with its send and create-conversation mutations.         *)
(*                                                                         *)
(* JavaScript strings are sequences of one-character strings, so that      *)
(* toLowerCase, includes, replace and join are computed and not assumed.   *)
(* A request handler runs atomically from one await to the next; every     *)
(* action below is one such stretch of code.                               *)
(***************************************************************************)
EXTENDS Integers, Sequences, FiniteSets, TLC

VARIABLES
    conversations,  \* the Store's conversation table: id (index) -> owner
    messages,       \* the Store's message table, in insertion order
    reqs,           \* the message-post requests, in arrival order
    probe,          \* a single call of a pure function: input and result
    client          \* the chat page: its state and its send mutations

vars == <<conversations, messages, reqs, probe, client>>

----------------------------------------------------------------------------
(* Bounds of the model *)

MaxRequests == 2        \* message-post requests over a run
MaxWords == 2           \* words of a probed message text

----------------------------------------------------------------------------
(* Strings *)

upperCase == <<"A","B","C","D","E","F","G","H","I","J","K","L","M","N","O","P","Q","R","S","T","U","V","W","X","Y","Z">>
lowerCase == <<"a","b","c","d","e","f","g","h","i","j","k","l","m","n","o","p","q","r","s","t","u","v","w","x","y","z">>

charToLower(c) ==
    IF \E k \in 1..Len(upperCase) : upperCase[k] = c
    THEN lowerCase[CHOOSE k \in 1..Len(upperCase) : upperCase[k] = c]
    ELSE c

\* String.prototype.toLowerCase, on the ASCII letters
RECURSIVE toLowerCase(_)
toLowerCase(s) ==
    IF Len(s) = 0 THEN <<>> ELSE <<charToLower(Head(s))>> \o toLowerCase(Tail(s))

\* String.prototype.includes: sub occurs in s as a contiguous substring
includes(s, sub) ==
    \E i \in 0..(Len(s) - Len(sub)) : SubSeq(s, i + 1, i + Len(sub)) = sub

\* String.prototype.replace with a string pattern: the FIRST occurrence only
replace(s, pat, by) ==
    IF includes(s, pat)
    THEN LET i == CHOOSE j \in 0..(Len(s) - Len(pat)) :
                    /\ SubSeq(s, j + 1, j + Len(pat)) = pat
                    /\ \A k \in 0..(j - 1) : SubSeq(s, k + 1, k + Len(pat)) # pat
         IN SubSeq(s, 1, i) \o by \o SubSeq(s, i + Len(pat) + 1, Len(s))
    ELSE s

\* Array.prototype.join
RECURSIVE join(_, _)
join(parts, sep) ==
    IF Len(parts) = 0 THEN <<>>
    ELSE IF Len(parts) = 1 THEN parts[1]
    ELSE parts[1] \o sep \o join(Tail(parts), sep)

----------------------------------------------------------------------------
(* Literals of the source *)

code_ai == <<"c","o","d","e","_","a","i">>
design_ai == <<"d","e","s","i","g","n","_","a","i">>
writing_ai == <<"w","r","i","t","i","n","g","_","a","i">>
analysis_ai == <<"a","n","a","l","y","s","i","s","_","a","i">>
coordinator == <<"c","o","o","r","d","i","n","a","t","o","r">>

kw_code == <<"c","o","d","e">>
kw_react == <<"r","e","a","c","t">>
kw_javascript == <<"j","a","v","a","s","c","r","i","p","t">>
kw_component == <<"c","o","m","p","o","n","e","n","t">>
kw_design == <<"d","e","s","i","g","n">>
kw_ui == <<"u","i">>
kw_ux == <<"u","x">>
kw_style == <<"s","t","y","l","e">>
kw_write == <<"w","r","i","t","e">>
kw_content == <<"c","o","n","t","e","n","t">>
kw_documentation == <<"d","o","c","u","m","e","n","t","a","t","i","o","n">>
kw_analyze == <<"a","n","a","l","y","z","e">>
kw_performance == <<"p","e","r","f","o","r","m","a","n","c","e">>
kw_optimize == <<"o","p","t","i","m","i","z","e">>

\* "I'll coordinate with our specialists to help you: "
analysisPrefix == <<"I","'","l","l"," ","c","o","o","r","d","i","n","a","t","e"," ","w","i","t","h"," ","o","u","r"," ","s","p","e","c","i","a","l","i","s","t","s"," ","t","o"," ","h","e","l","p"," ","y","o","u",":"," ">>

underscore == <<"_">>
space == <<" ">>
commaSpace == <<",", " ">>

----------------------------------------------------------------------------
(* analyzeMessage: the keyword classifier *)

matchesCode(lowerMessage) ==
    \/ includes(lowerMessage, kw_code)
    \/ includes(lowerMessage, kw_react)
    \/ includes(lowerMessage, kw_javascript)
    \/ includes(lowerMessage, kw_component)

matchesDesign(lowerMessage) ==
    \/ includes(lowerMessage, kw_design)
    \/ includes(lowerMessage, kw_ui)
    \/ includes(lowerMessage, kw_ux)
    \/ includes(lowerMessage, kw_style)

matchesWriting(lowerMessage) ==
    \/ includes(lowerMessage, kw_write)
    \/ includes(lowerMessage, kw_content)
    \/ includes(lowerMessage, kw_documentation)

matchesAnalysis(lowerMessage) ==
    \/ includes(lowerMessage, kw_analyze)
    \/ includes(lowerMessage, kw_performance)
    \/ includes(lowerMessage, kw_optimize)

\* specialists.push(id) when the group's test holds
pushIf(test, specialists, id) ==
    IF test THEN Append(specialists, id) ELSE specialists

\* (mutant) the analysis group is tested before the writing group
selectByKeywordsAnalysisFirst(lowerMessage) ==
    LET s1 == pushIf(matchesCode(lowerMessage), <<>>, code_ai)
        s2 == pushIf(matchesDesign(lowerMessage), s1, design_ai)
        s3 == pushIf(matchesAnalysis(lowerMessage), s2, analysis_ai)
        s4 == pushIf(matchesWriting(lowerMessage), s3, writing_ai)
    IN s4

\* (mutant) code_ai is pushed once for every keyword of its group that matches
selectByKeywordsPerKeyword(lowerMessage) ==
    LET c1 == pushIf(includes(lowerMessage, kw_code), <<>>, code_ai)
        c2 == pushIf(includes(lowerMessage, kw_react), c1, code_ai)
        c3 == pushIf(includes(lowerMessage, kw_javascript), c2, code_ai)
        s1 == pushIf(includes(lowerMessage, kw_component), c3, code_ai)
        s2 == pushIf(matchesDesign(lowerMessage), s1, design_ai)
        s3 == pushIf(matchesWriting(lowerMessage), s2, writing_ai)
        s4 == pushIf(matchesAnalysis(lowerMessage), s3, analysis_ai)
    IN s4

\* the four tests, in source order, each pushing onto the list
selectByKeywords(lowerMessage) ==
    LET s1 == pushIf(matchesCode(lowerMessage), <<>>, code_ai)
        s2 == pushIf(matchesDesign(lowerMessage), s1, design_ai)
        s3 == pushIf(matchesWriting(lowerMessage), s2, writing_ai)
        s4 == pushIf(matchesAnalysis(lowerMessage), s3, analysis_ai)
    IN s4

\* (mutant) no default
defaultSpecialistsNone(specialists) == specialists

\* "Default to code_ai if no specific specialist identified"
defaultSpecialists(specialists) ==
    IF Len(specialists) = 0 THEN Append(specialists, code_ai) ELSE specialists

replaceUnderscore(s) == replace(s, underscore, space)

\* specialists.map(s => s.replace('_', ' '))
mapReplaceUnderscore(specialists) ==
    [i \in 1..Len(specialists) |-> replaceUnderscore(specialists[i])]

analysisOf(specialists) ==
    analysisPrefix \o join(mapReplaceUnderscore(specialists), commaSpace)

\* lowerMessage and specialists are bound as values, each computed once
analyzeMessage(message) ==
    CHOOSE coordinatorResponse \in
        { [ analysis |-> analysisOf(specialists),
            specialists |-> specialists,
            context |-> [originalMessage |-> message] ] :
          specialists \in { defaultSpecialists(selectByKeywords(lowerMessage)) :
                            lowerMessage \in {toLowerCase(message)} } } : TRUE

----------------------------------------------------------------------------
(* getSpecialistResponse: the specialist registry *)

responses ==
    [ s \in {code_ai, design_ai, writing_ai, analysis_ai} |->
        CASE s = code_ai ->
               [ content |-> <<"I","'","l","l"," ","h","e","l","p"," ","y","o","u"," ","w","i","t","h"," ","t","h","e"," ","c","o","d","e"," ","i","m","p","l","e","m","e","n","t","a","t","i","o","n","."," ","B","a","s","e","d"," ","o","n"," ","y","o","u","r"," ","r","e","q","u","e","s","t",","," ","I"," ","r","e","c","o","m","m","e","n","d"," ","c","r","e","a","t","i","n","g"," ","a"," ","R","e","a","c","t"," ","c","o","m","p","o","n","e","n","t"," ","w","i","t","h"," ","T","y","p","e","S","c","r","i","p","t"," ","f","o","r"," ","b","e","t","t","e","r"," ","t","y","p","e"," ","s","a","f","e","t","y"," ","a","n","d"," ","m","a","i","n","t","a","i","n","a","b","i","l","i","t","y",".">>,
                 metadata |-> [type |-> "code", language |-> "javascript"] ]
          [] s = design_ai ->
               [ content |-> <<"F","o","r"," ","t","h","e"," ","U","I","/","U","X"," ","d","e","s","i","g","n",","," ","I"," ","s","u","g","g","e","s","t"," ","f","o","l","l","o","w","i","n","g"," ","m","o","d","e","r","n"," ","d","e","s","i","g","n"," ","p","r","i","n","c","i","p","l","e","s"," ","w","i","t","h"," ","p","r","o","p","e","r"," ","s","p","a","c","i","n","g",","," ","t","y","p","o","g","r","a","p","h","y",","," ","a","n","d"," ","a","c","c","e","s","s","i","b","i","l","i","t","y"," ","c","o","n","s","i","d","e","r","a","t","i","o","n","s","."," ","T","h","e"," ","d","e","s","i","g","n"," ","s","h","o","u","l","d"," ","b","e"," ","r","e","s","p","o","n","s","i","v","e"," ","a","n","d"," ","u","s","e","r","-","f","r","i","e","n","d","l","y",".">>,
                 metadata |-> [type |-> "design", recommendations |-> <<"responsive", "accessible", "modern">>] ]
          [] s = writing_ai ->
               [ content |-> <<"I","'","l","l"," ","h","e","l","p"," ","y","o","u"," ","w","i","t","h"," ","c","l","e","a","r",","," ","c","o","n","c","i","s","e"," ","c","o","n","t","e","n","t"," ","t","h","a","t"," ","c","o","m","m","u","n","i","c","a","t","e","s"," ","e","f","f","e","c","t","i","v","e","l","y"," ","w","i","t","h"," ","y","o","u","r"," ","u","s","e","r","s","."," ","T","h","e"," ","w","r","i","t","i","n","g"," ","s","h","o","u","l","d"," ","b","e"," ","p","r","o","f","e","s","s","i","o","n","a","l"," ","y","e","t"," ","a","p","p","r","o","a","c","h","a","b","l","e",".">>,
                 metadata |-> [type |-> "writing", tone |-> "professional"] ]
          [] s = analysis_ai ->
               [ content |-> <<"F","r","o","m"," ","a","n"," ","a","n","a","l","y","s","i","s"," ","p","e","r","s","p","e","c","t","i","v","e",","," ","I"," ","r","e","c","o","m","m","e","n","d"," ","c","o","n","s","i","d","e","r","i","n","g"," ","p","e","r","f","o","r","m","a","n","c","e"," ","i","m","p","l","i","c","a","t","i","o","n","s",","," ","s","c","a","l","a","b","i","l","i","t","y",","," ","a","n","d"," ","b","e","s","t"," ","p","r","a","c","t","i","c","e","s"," ","f","o","r"," ","l","o","n","g","-","t","e","r","m"," ","m","a","i","n","t","e","n","a","n","c","e",".">>,
                 metadata |-> [type |-> "analysis", focus |-> <<"performance", "scalability">>] ] ]

\* responses[specialist] || responses.code_ai (the own keys of responses;
\* the properties an object literal inherits are left out)
getSpecialistResponse(specialist, message, context) ==
    IF specialist \in DOMAIN responses THEN responses[specialist] ELSE responses[code_ai]

----------------------------------------------------------------------------
(* Inputs *)

Users == {"u1", "u2"}

\* The connections to the server.  A connection carries one request at a
\* time: the next one is sent on it when the response of the previous one
\* has arrived.  Requests on different connections overlap.  Connections
\* are interchangeable, so a request does not record which one it came on.
Connections == {"k1", "k2"}

\* The conversation table when the server starts: one conversation, of u1.
\* Requests name it, or an identifier that names no conversation.
storedConversations == <<[userId |-> "u1"]>>
ConversationIds == {1, 2}

w_hello == <<"h","e","l","l","o">>
w_React == <<"R","e","a","c","t">>
w_build == <<"b","u","i","l","d">>
w_linux == <<"l","i","n","u","x">>
w_OPTIMIZE == <<"O","P","T","I","M","I","Z","E">>

\* "I need a react component for my ui design"
textReactUi == <<"I"," ","n","e","e","d"," ","a"," ","r","e","a","c","t"," ","c","o","m","p","o","n","e","n","t"," ","f","o","r"," ","m","y"," ","u","i"," ","d","e","s","i","g","n">>
\* "Can you help me write documentation and also analyze performance?"
textWriteAnalyze == <<"C","a","n"," ","y","o","u"," ","h","e","l","p"," ","m","e"," ","w","r","i","t","e"," ","d","o","c","u","m","e","n","t","a","t","i","o","n"," ","a","n","d"," ","a","l","s","o"," ","a","n","a","l","y","z","e"," ","p","e","r","f","o","r","m","a","n","c","e","?">>

\* the message texts of the posted requests
PostTexts == {w_hello, textReactUi}

\* request bodies: { role: "user", content } as the client sends it, and a
\* body without content
Bodies == {[role |-> "user", content |-> t] : t \in PostTexts} \cup {[role |-> "user"]}

----------------------------------------------------------------------------
(* The Store (./storage) *)

\* storage.getConversation(id, userId): the conversation if userId owns it
getConversation(convs, conversationId, userId) ==
    /\ conversationId \in 1..Len(convs)
    /\ convs[conversationId].userId = userId

\* storage.createMessage(insert): the stored record, with the assigned id.
\* round is a history field: the request whose handler made the call.
storedMessage(msgs, insert, round) ==
    [id |-> Len(msgs) + 1, round |-> round] @@ insert

createMessage(msgs, insert, round) == Append(msgs, storedMessage(msgs, insert, round))

\* insertMessageSchema.parse accepts the body
schemaAccepts(body) == {"role", "content"} \subseteq DOMAIN body

----------------------------------------------------------------------------
(* POST /api/conversations/:id/messages *)

\* userMessage before createMessage has returned
noMessage == [id |-> 0]

\* the message texts of the error responses
msgNotFound == <<"C","o","n","v","e","r","s","a","t","i","o","n"," ","n","o","t"," ","f","o","u","n","d">>
msgInvalid == <<"I","n","v","a","l","i","d"," ","m","e","s","s","a","g","e"," ","d","a","t","a">>
msgFailed == <<"F","a","i","l","e","d"," ","t","o"," ","c","r","e","a","t","e"," ","m","e","s","s","a","g","e">>

\* the locals of coordinateAIResponse before analyzeMessage has returned
noCoordinatorResponse ==
    [analysis |-> <<>>, specialists |-> <<>>, context |-> [originalMessage |-> <<>>]]

\* A request: its inputs, the await it is suspended at (pc), the locals of
\* the route handler and of coordinateAIResponse (insert is the argument of
\* the createMessage call in flight, idx the position of the for loop), and
\* its response.  History fields: rejected, the specialists whose handler
\* rejected; invoked, the specialists whose handler was called, in call
\* order; storeFailed, whether a createMessage call of the request threw.
newRequest(userId, conversationId, body) ==
    [ userId |-> userId, conversationId |-> conversationId, body |-> body,
      pc |-> "getConversation", status |-> 0, json |-> <<>>,
      insert |-> <<>>, userMessage |-> noMessage,
      coordinatorResponse |-> noCoordinatorResponse,
      responses |-> <<>>, idx |-> 0,
      rejected |-> <<>>, invoked |-> <<>>, storeFailed |-> FALSE ]

\* res.status(code).json(...): the handler ends
respond(req, code, json) ==
    [req EXCEPT !.pc = "done", !.status = code, !.json = json]

\* (mutant) the catch block does not tell a validation error apart
routeCatchAlways500(req, error) ==
    respond(req, 500, [message |-> msgFailed])

\* (mutant) the catch block answers as if the round had succeeded
routeCatchReportsSuccess(req, error) ==
    respond(req, 200, [userMessage |-> req.userMessage, aiResponses |-> req.responses])

\* the catch block of the route
routeCatch(req, error) ==
    IF error = "ZodError"
    THEN respond(req, 400, [message |-> msgInvalid])
    ELSE respond(req, 500, [message |-> msgFailed])

\* (mutant) the user message is returned among the responses
routeSuccessWithUserMessage(req, aiResponses) ==
    respond(req, 200, [userMessage |-> req.userMessage,
                       aiResponses |-> <<req.userMessage>> \o aiResponses])

\* res.json({ userMessage, aiResponses })
routeSuccess(req, aiResponses) ==
    respond(req, 200, [userMessage |-> req.userMessage, aiResponses |-> aiResponses])

\* the arguments of the three createMessage calls
userInsert(req) ==
    [conversationId |-> req.conversationId] @@ req.body

\* (mutant) the coordinator message carries no list of specialists
coordinatorInsertNoSpecialists(req, coordinatorResponse) ==
    [ conversationId |-> req.conversationId,
      role |-> "coordinator",
      content |-> coordinatorResponse.analysis,
      specialist |-> coordinator,
      metadata |-> [specialists |-> <<>>] ]

coordinatorInsert(req, coordinatorResponse) ==
    [ conversationId |-> req.conversationId,
      role |-> "coordinator",
      content |-> coordinatorResponse.analysis,
      specialist |-> coordinator,
      metadata |-> [specialists |-> coordinatorResponse.specialists] ]

\* (mutant) every specialist message is attributed to code_ai
specialistInsertAsCodeAi(req, specialist, specialistResponse) ==
    [ conversationId |-> req.conversationId,
      role |-> "assistant",
      content |-> specialistResponse.content,
      specialist |-> code_ai,
      metadata |-> specialistResponse.metadata ]

specialistInsert(req, specialist, specialistResponse) ==
    [ conversationId |-> req.conversationId,
      role |-> "assistant",
      content |-> specialistResponse.content,
      specialist |-> specialist,
      metadata |-> specialistResponse.metadata ]

\* (mutant) the loop stops one specialist early
delegateStopsEarly(req, idx) ==
    IF idx < Len(req.coordinatorResponse.specialists)
    THEN [req EXCEPT !.pc = "getSpecialistResponse", !.idx = idx,
                     !.invoked = Append(req.invoked,
                                        req.coordinatorResponse.specialists[idx])]
    ELSE routeSuccess(req, req.responses)

\* the for loop of coordinateAIResponse, entered at position idx: call the
\* handler of the next specialist, or return the responses to the route
delegate(req, idx) ==
    IF idx <= Len(req.coordinatorResponse.specialists)
    THEN [req EXCEPT !.pc = "getSpecialistResponse", !.idx = idx,
                     !.invoked = Append(req.invoked,
                                        req.coordinatorResponse.specialists[idx])]
    ELSE routeSuccess(req, req.responses)

\* the requests whose response has not been sent
inFlight == {r \in DOMAIN reqs : reqs[r].pc # "done"}

\* a request arrives: the handler runs to await storage.getConversation
PostMessage(userId, conversationId, body) ==
    /\ Len(reqs) < MaxRequests
    /\ Cardinality(inFlight) < Cardinality(Connections)
    /\ reqs' = Append(reqs, newRequest(userId, conversationId, body))
    /\ UNCHANGED <<conversations, messages, probe, client>>

\* (mutant) the result of getConversation is not looked at
GetConversationReturnsUnchecked(r) ==
    /\ reqs[r].pc = "getConversation"
    /\ LET req == reqs[r] IN
       reqs' = [reqs EXCEPT ![r] =
         IF ~schemaAccepts(req.body)
         THEN routeCatch(req, "ZodError")
         ELSE [req EXCEPT !.pc = "createUserMessage", !.insert = userInsert(req)]]
    /\ UNCHANGED <<conversations, messages, probe, client>>

\* getConversation returns: 404, or the body is parsed and the user message
\* is handed to storage.createMessage
GetConversationReturns(r) ==
    /\ reqs[r].pc = "getConversation"
    /\ LET req == reqs[r] IN
       reqs' = [reqs EXCEPT ![r] =
         IF ~getConversation(conversations, req.conversationId, req.userId)
         THEN respond(req, 404, [message |-> msgNotFound])
         ELSE IF ~schemaAccepts(req.body)
         THEN routeCatch(req, "ZodError")
         ELSE [req EXCEPT !.pc = "createUserMessage", !.insert = userInsert(req)]]
    /\ UNCHANGED <<conversations, messages, probe, client>>

\* (mutant) a failed createMessage(validatedData) is ignored and
\* coordinateAIResponse is called all the same
CreateUserMessageFailureIgnored(r) ==
    /\ reqs[r].pc = "createUserMessage"
    /\ LET req == reqs[r] IN
       \/ /\ messages' = createMessage(messages, req.insert, r)
          /\ reqs' = [reqs EXCEPT ![r] =
               [req EXCEPT !.pc = "analyzeMessage",
                           !.userMessage = storedMessage(messages, req.insert, r)]]
       \/ /\ reqs' = [reqs EXCEPT ![r] = [req EXCEPT !.pc = "analyzeMessage"]]
          /\ UNCHANGED messages
    /\ UNCHANGED <<conversations, probe, client>>

\* createMessage(validatedData) returns: coordinateAIResponse is called and
\* runs to await analyzeMessage
CreateUserMessageReturns(r) ==
    /\ reqs[r].pc = "createUserMessage"
    /\ LET req == reqs[r] IN
       \/ /\ messages' = createMessage(messages, req.insert, r)
          /\ reqs' = [reqs EXCEPT ![r] =
               [req EXCEPT !.pc = "analyzeMessage",
                           !.userMessage = storedMessage(messages, req.insert, r)]]
       \/ /\ reqs' = [reqs EXCEPT ![r] = routeCatch([req EXCEPT !.storeFailed = TRUE], "StoreUnavailable")]
          /\ UNCHANGED messages
    /\ UNCHANGED <<conversations, probe, client>>

\* analyzeMessage returns: the coordinator message is handed to createMessage
AnalyzeMessageReturns(r) ==
    /\ reqs[r].pc = "analyzeMessage"
    /\ LET req == reqs[r]
           coordinatorResponse == analyzeMessage(req.insert.content)
       IN reqs' = [reqs EXCEPT ![r] =
            [req EXCEPT !.pc = "createCoordinatorMessage",
                        !.coordinatorResponse = coordinatorResponse,
                        !.responses = <<>>,
                        !.insert = coordinatorInsert(req, coordinatorResponse)]]
    /\ UNCHANGED <<conversations, messages, probe, client>>

\* (mutant) a failed createMessage(coordinator) is ignored and the loop begins
CreateCoordinatorMessageFailureIgnored(r) ==
    /\ reqs[r].pc = "createCoordinatorMessage"
    /\ LET req == reqs[r] IN
       \/ /\ messages' = createMessage(messages, req.insert, r)
          /\ reqs' = [reqs EXCEPT ![r] =
               delegate([req EXCEPT !.responses =
                           Append(req.responses, storedMessage(messages, req.insert, r))], 1)]
       \/ /\ reqs' = [reqs EXCEPT ![r] = delegate([req EXCEPT !.storeFailed = TRUE], 1)]
          /\ UNCHANGED messages
    /\ UNCHANGED <<conversations, probe, client>>

\* createMessage(coordinator) returns: responses.push, the loop begins
CreateCoordinatorMessageReturns(r) ==
    /\ reqs[r].pc = "createCoordinatorMessage"
    /\ LET req == reqs[r] IN
       \/ /\ messages' = createMessage(messages, req.insert, r)
          /\ reqs' = [reqs EXCEPT ![r] =
               delegate([req EXCEPT !.responses =
                           Append(req.responses, storedMessage(messages, req.insert, r))], 1)]
       \/ /\ reqs' = [reqs EXCEPT ![r] = routeCatch([req EXCEPT !.storeFailed = TRUE], "StoreUnavailable")]
          /\ UNCHANGED messages
    /\ UNCHANGED <<conversations, probe, client>>

\* getSpecialistResponse returns: the specialist message is handed to
\* createMessage
GetSpecialistResponseReturns(r) ==
    /\ reqs[r].pc = "getSpecialistResponse"
    /\ LET req == reqs[r]
           specialist == req.coordinatorResponse.specialists[req.idx]
           specialistResponse ==
               getSpecialistResponse(specialist, req.body.content,
                                     req.coordinatorResponse.context)
       IN reqs' = [reqs EXCEPT ![r] =
            [req EXCEPT !.pc = "createSpecialistMessage",
                        !.insert = specialistInsert(req, specialist, specialistResponse)]]
    /\ UNCHANGED <<conversations, messages, probe, client>>

\* createMessage(specialist) returns: responses.push, the loop goes on
CreateSpecialistMessageReturns(r) ==
    /\ reqs[r].pc = "createSpecialistMessage"
    /\ LET req == reqs[r] IN
       \/ /\ messages' = createMessage(messages, req.insert, r)
          /\ reqs' = [reqs EXCEPT ![r] =
               delegate([req EXCEPT !.responses =
                           Append(req.responses, storedMessage(messages, req.insert, r))],
                        req.idx + 1)]
       \/ /\ reqs' = [reqs EXCEPT ![r] = routeCatch([req EXCEPT !.storeFailed = TRUE], "StoreUnavailable")]
          /\ UNCHANGED messages
    /\ UNCHANGED <<conversations, probe, client>>

\* The awaited handler rejects (a handler that calls a model, or one cut off
\* by a timeout): the exception leaves the loop and coordinateAIResponse and
\* reaches the catch block of the route.  The built-in handlers never do.
GetSpecialistResponseRejects(r) ==
    /\ reqs[r].pc = "getSpecialistResponse"
    /\ LET req == reqs[r]
           specialist == req.coordinatorResponse.specialists[req.idx]
       IN reqs' = [reqs EXCEPT ![r] =
            routeCatch([req EXCEPT !.rejected = Append(req.rejected, specialist)],
                       "SpecialistError")]
    /\ UNCHANGED <<conversations, messages, probe, client>>

----------------------------------------------------------------------------
(* The server *)

noProbe == [fn |-> "none"]

\* the chat page as mounted: useState("") and useState(null), no mutation
\* started.  currentConversationId 0 stands for null.
initialClient ==
    [messageInput |-> <<>>, currentConversationId |-> 0, sends |-> <<>>]

Init ==
    /\ conversations = storedConversations
    /\ messages = <<>>
    /\ reqs = <<>>
    /\ probe = noProbe
    /\ client = initialClient

Next ==
    \/ \E u \in Users, c \in ConversationIds, b \in Bodies : PostMessage(u, c, b)
    \/ \E r \in DOMAIN reqs : GetConversationReturns(r)
    \/ \E r \in DOMAIN reqs : CreateUserMessageReturns(r)
    \/ \E r \in DOMAIN reqs : AnalyzeMessageReturns(r)
    \/ \E r \in DOMAIN reqs : CreateCoordinatorMessageReturns(r)
    \/ \E r \in DOMAIN reqs : GetSpecialistResponseReturns(r)
    \/ \E r \in DOMAIN reqs : CreateSpecialistMessageReturns(r)

Spec == Init /\ [][Next]_vars

\* The server with handlers that may reject
NextFault ==
    \/ Next
    \/ \E r \in DOMAIN reqs : GetSpecialistResponseRejects(r)

SpecFault == Init /\ [][NextFault]_vars

\* The server with a handler that may never complete.  The event loop runs
\* the continuation of every call that returns, and the Store answers every
\* call (with a record or an error): each step of a request but the return
\* of getSpecialistResponse is taken if it stays possible.
storeStep(r) ==
    /\ r \in DOMAIN reqs
    /\ \/ GetConversationReturns(r)
       \/ CreateUserMessageReturns(r)
       \/ AnalyzeMessageReturns(r)
       \/ CreateCoordinatorMessageReturns(r)
       \/ CreateSpecialistMessageReturns(r)

SpecHang ==
    Init /\ [][Next]_vars /\ \A r \in 1..MaxRequests : WF_vars(storeStep(r))

----------------------------------------------------------------------------
(* The pure functions, each applied once to an input of a bounded set *)

unknown_ai == <<"u","n","k","n","o","w","n","_","a","i">>

Vocabulary ==
    { kw_code, kw_react, kw_javascript, kw_component,
      kw_design, kw_ui, kw_ux, kw_style,
      kw_write, kw_content, kw_documentation,
      kw_analyze, kw_performance, kw_optimize,
      w_hello, w_React, w_build, w_linux, w_OPTIMIZE, space }

WordSeqs == UNION {[1..k -> Vocabulary] : k \in 0..MaxWords}

\* the texts of at most MaxWords words, a space between two words, and the
\* two example sentences
ProbeTexts ==
    {join(ws, space) : ws \in WordSeqs} \cup {textReactUi, textWriteAnalyze}

ProbeIdentifiers ==
    {code_ai, design_ai, writing_ai, analysis_ai, unknown_ai, coordinator, <<>>}

\* selections for the rationale template: registered identifiers, and
\* identifiers another registry could define, with two underscores and with
\* none
data_science_ai == <<"d","a","t","a","_","s","c","i","e","n","c","e","_","a","i">>
ai == <<"a","i">>

ProbeSelections ==
    LET ids == {code_ai, design_ai, data_science_ai, ai}
    IN {<<a>> : a \in ids} \cup {<<p[1], p[2]>> : p \in {q \in ids \X ids : q[1] # q[2]}}

InitPure ==
    /\ conversations = storedConversations
    /\ messages = <<>>
    /\ reqs = <<>>
    /\ client = initialClient
    /\ probe \in
         {[fn |-> "analyzeMessage", message |-> t, specialist |-> <<>>,
           specialists |-> <<>>,
           returned |-> FALSE, threw |-> FALSE, result |-> <<>>] : t \in ProbeTexts}
         \cup
         {[fn |-> "getSpecialistResponse", message |-> t, specialist |-> s,
           specialists |-> <<>>,
           returned |-> FALSE, threw |-> FALSE, result |-> <<>>] :
             t \in {w_hello, textReactUi}, s \in ProbeIdentifiers}
         \cup
         {[fn |-> "analysisOf", message |-> <<>>, specialist |-> <<>>,
           specialists |-> sel,
           returned |-> FALSE, threw |-> FALSE, result |-> <<>>] :
             sel \in ProbeSelections}

ProbeAnalyzeMessage ==
    /\ probe.fn = "analyzeMessage"
    /\ ~probe.returned
    /\ probe' = [probe EXCEPT !.returned = TRUE,
                              !.result = analyzeMessage(probe.message)]
    /\ UNCHANGED <<conversations, messages, reqs, client>>

ProbeGetSpecialistResponse ==
    /\ probe.fn = "getSpecialistResponse"
    /\ ~probe.returned
    /\ probe' = [probe EXCEPT !.returned = TRUE,
                              !.result = getSpecialistResponse(probe.specialist, probe.message,
                                                               [originalMessage |-> probe.message])]
    /\ UNCHANGED <<conversations, messages, reqs, client>>

\* the template string of analyzeMessage, for a given list of specialists
ProbeAnalysisOf ==
    /\ probe.fn = "analysisOf"
    /\ ~probe.returned
    /\ probe' = [probe EXCEPT !.returned = TRUE,
                              !.result = analysisOf(probe.specialists)]
    /\ UNCHANGED <<conversations, messages, reqs, client>>

NextPure ==
    \/ ProbeAnalyzeMessage
    \/ ProbeGetSpecialistResponse
    \/ ProbeAnalysisOf

SpecPure == InitPure /\ [][NextPure]_vars

----------------------------------------------------------------------------
(* The chat page (client/src/pages/chat.tsx) *)

MaxSends == 2           \* sendMessageMutation.mutate calls over a run

\* the user of the page
clientUser == "u1"

whitespace == {" ", "\t", "\n"}

RECURSIVE trimStart(_)
trimStart(s) ==
    IF Len(s) > 0 /\ Head(s) \in whitespace THEN trimStart(Tail(s)) ELSE s

RECURSIVE trimEnd(_)
trimEnd(s) ==
    IF Len(s) > 0 /\ s[Len(s)] \in whitespace
    THEN trimEnd(SubSeq(s, 1, Len(s) - 1))
    ELSE s

\* String.prototype.trim
trim(s) == trimEnd(trimStart(s))

\* what the user types into the textarea
w_blank == <<" ", " ">>
w_padded == <<" ", "h", "i", " ">>
InputTexts == {<<>>, w_blank, w_hello, w_padded}

\* storage.createConversation(userId, validatedData): the table with the
\* new conversation, whose id is its index
createConversation(convs, userId, data) ==
    Append(convs, [userId |-> userId, title |-> data.title])

\* storage.getConversations(userId), as the identifiers the sidebar lists
getConversations(convs, userId) ==
    {c \in 1..Len(convs) : convs[c].userId = userId}

ellipsis == <<".", ".", ".">>
titleLength == 50

\* content.slice(0, 50) + (content.length > 50 ? "..." : "")
conversationTitle(content) ==
    IF Len(content) > titleLength
    THEN SubSeq(content, 1, titleLength) \o ellipsis
    ELSE content

\* sendMessageMutation.isPending: the observer follows the mutation that
\* the last mutate call started
isPending ==
    /\ Len(client.sends) > 0
    /\ client.sends[Len(client.sends)].pc # "done"

\* sendMessageMutation.mutate(content): mutationFn runs to its first await,
\* which is createConversationMutation.mutateAsync when no conversation is
\* selected and the POST of the message otherwise.  conversationId is the
\* conversation of the POST (0 while there is none), created the
\* conversation made for the send.  History field: startedWith, the
\* currentConversationId that mutationFn read.
mutate(content) ==
    [ content |-> content,
      startedWith |-> client.currentConversationId,
      pc |-> IF client.currentConversationId = 0
             THEN "createConversation" ELSE "postMessage",
      conversationId |-> client.currentConversationId,
      created |-> 0,
      status |-> "pending" ]

handleSendMessage ==
    /\ trim(client.messageInput) # <<>>
    /\ Len(client.sends) < MaxSends
    /\ client' = [client EXCEPT !.sends = Append(@, mutate(client.messageInput))]
    /\ UNCHANGED <<conversations, messages, reqs, probe>>

\* onChange of the textarea
SetMessageInput(text) ==
    /\ client.messageInput # text
    /\ client' = [client EXCEPT !.messageInput = text]
    /\ UNCHANGED <<conversations, messages, reqs, probe>>

\* a click on the send button, which is disabled while the input is blank
\* or the send mutation is pending
ClickSend ==
    /\ ~(trim(client.messageInput) = <<>> \/ isPending)
    /\ handleSendMessage

\* onKeyDown of the textarea with the Enter key: handleSendMessage is called
\* when metaKey or ctrlKey is held
Modifiers == {"metaKey", "ctrlKey", "none"}

KeyDownEnter(modifier) ==
    /\ modifier \in {"metaKey", "ctrlKey"}
    /\ handleSendMessage

\* handleNewChat
NewChat ==
    /\ client.currentConversationId # 0
    /\ client' = [client EXCEPT !.currentConversationId = 0]
    /\ UNCHANGED <<conversations, messages, reqs, probe>>

\* onConversationSelect of the sidebar
SelectConversation(c) ==
    /\ c \in getConversations(conversations, clientUser)
    /\ client.currentConversationId # c
    /\ client' = [client EXCEPT !.currentConversationId = c]
    /\ UNCHANGED <<conversations, messages, reqs, probe>>

\* POST /api/conversations answers with the new conversation: onSuccess of
\* createConversationMutation selects it, mutateAsync resolves and
\* mutationFn posts the message to newConversation.id
CreateConversationSucceeds(i) ==
    /\ client.sends[i].pc = "createConversation"
    /\ conversations' = createConversation(conversations, clientUser,
                            [title |-> conversationTitle(client.sends[i].content)])
    /\ LET newConversation == [id |-> Len(conversations) + 1] IN
       client' = [client EXCEPT
           !.currentConversationId = newConversation.id,
           !.sends[i] = [@ EXCEPT !.pc = "postMessage",
                                  !.created = newConversation.id,
                                  !.conversationId = newConversation.id]]
    /\ UNCHANGED <<messages, reqs, probe>>

\* (mutant) the message is posted although the creation failed
CreateConversationFailurePosts(i) ==
    /\ client.sends[i].pc = "createConversation"
    /\ client' = [client EXCEPT
           !.sends[i] = [@ EXCEPT !.pc = "postMessage"]]
    /\ UNCHANGED <<conversations, messages, reqs, probe>>

\* POST /api/conversations fails: mutateAsync rejects, mutationFn throws and
\* onError of sendMessageMutation runs
CreateConversationFails(i) ==
    /\ client.sends[i].pc = "createConversation"
    /\ client' = [client EXCEPT
           !.sends[i] = [@ EXCEPT !.pc = "done", !.status = "error"]]
    /\ UNCHANGED <<conversations, messages, reqs, probe>>

\* the POST of the message is answered 2xx: onSuccess clears the input
PostMessageSucceeds(i) ==
    /\ client.sends[i].pc = "postMessage"
    /\ client' = [client EXCEPT
           !.messageInput = <<>>,
           !.sends[i] = [@ EXCEPT !.pc = "done", !.status = "success"]]
    /\ UNCHANGED <<conversations, messages, reqs, probe>>

\* the POST of the message fails: onError
PostMessageFails(i) ==
    /\ client.sends[i].pc = "postMessage"
    /\ client' = [client EXCEPT
           !.sends[i] = [@ EXCEPT !.pc = "done", !.status = "error"]]
    /\ UNCHANGED <<conversations, messages, reqs, probe>>

NextClient ==
    \/ \E text \in InputTexts : SetMessageInput(text)
    \/ ClickSend
    \/ \E modifier \in Modifiers : KeyDownEnter(modifier)
    \/ NewChat
    \/ \E c \in getConversations(conversations, clientUser) : SelectConversation(c)
    \/ \E i \in DOMAIN client.sends : CreateConversationSucceeds(i)
    \/ \E i \in DOMAIN client.sends : CreateConversationFails(i)
    \/ \E i \in DOMAIN client.sends : PostMessageSucceeds(i)
    \/ \E i \in DOMAIN client.sends : PostMessageFails(i)

SpecClient == Init /\ [][NextClient]_vars

----------------------------------------------------------------------------
(* The claims *)

\* the records of the message table that round r appended, in table order
roundRecords(r) ==
    LET ofRound(m) == m.round = r IN SelectSeq(messages, ofRound)

\* the records that coordinateAIResponse appended in round r: all but the
\* user message, which the route appended first
coordinateRecords(r) ==
    LET byCoordinate(m) == m.round = r /\ m.role # "user" IN SelectSeq(messages, byCoordinate)

\* the selection of the classifier for each posted text, and for the text
\* of request r
selectionByText == [t \in PostTexts |-> analyzeMessage(t).specialists]

selectionOf(r) == selectionByText[reqs[r].body.content]

\* the keyword groups and their evaluation order, as the specification
\* lists them
evaluationOrder == <<code_ai, design_ai, writing_ai, analysis_ai>>

keywordGroup(id) ==
    CASE id = code_ai -> {kw_code, kw_react, kw_javascript, kw_component}
      [] id = design_ai -> {kw_design, kw_ui, kw_ux, kw_style}
      [] id = writing_ai -> {kw_write, kw_content, kw_documentation}
      [] id = analysis_ai -> {kw_analyze, kw_performance, kw_optimize}

groupMatches(id, text) ==
    \E k \in keywordGroup(id) : includes(toLowerCase(text), k)

matchedInOrder(text) ==
    LET matched(id) == groupMatches(id, text) IN SelectSeq(evaluationOrder, matched)

classified == probe.fn = "analyzeMessage" /\ probe.returned

\* C1: a round that succeeds has appended exactly 1 + |selected| records to
\* its conversation: the coordinator record first, then one assistant record
\* for each selected specialist, in the classifier's selection order (the
\* handlers complete in that order: each is awaited before the next is called)
C1_SuccessfulRoundAppends ==
    \A r \in DOMAIN reqs :
        reqs[r].status = 200 =>
            LET recs == coordinateRecords(r)
                sel == selectionOf(r)
            IN /\ Len(recs) = 1 + Len(sel)
               /\ recs[1].role = "coordinator"
               /\ \A i \in DOMAIN recs : recs[i].conversationId = reqs[r].conversationId
               /\ \A i \in DOMAIN sel :
                    /\ recs[i + 1].role = "assistant"
                    /\ recs[i + 1].specialist = sel[i]

\* a round of two specialists succeeded although another request's records
\* lie between its own
C1_Witness ==
    \E r \in DOMAIN reqs :
        /\ reqs[r].status = 200
        /\ selectionOf(r) = <<code_ai, design_ai>>
        /\ \E i, j, k \in DOMAIN messages :
             /\ i < j /\ j < k
             /\ messages[i].round = r /\ messages[k].round = r
             /\ messages[j].round # r

C3_UnknownSpecialistFails ==
    ( /\ probe.fn = "getSpecialistResponse"
      /\ probe.returned
      /\ probe.specialist \notin DOMAIN responses ) => probe.threw

\* C4: when at least one keyword group matches the lowercased text, the
\* selection is exactly the matched specialists in the fixed order code_ai,
\* design_ai, writing_ai, analysis_ai, each once
C4_SelectionInEvaluationOrder ==
    ( classified /\ \E id \in DOMAIN responses : groupMatches(id, probe.message) ) =>
        probe.result.specialists = matchedInOrder(probe.message)

\* "analyze code": the keywords stand in the text in the opposite order
C4_Witness ==
    /\ classified
    /\ probe.message = join(<<kw_analyze, kw_code>>, space)
    /\ probe.result.specialists = <<code_ai, analysis_ai>>

\* C5: a text with none of the keywords is classified as [code_ai], and no
\* text is classified as the empty selection
C5_FallbackIsCodeAi ==
    classified =>
        /\ Len(probe.result.specialists) > 0
        /\ (\A id \in DOMAIN responses : ~groupMatches(id, probe.message)) =>
              probe.result.specialists = <<code_ai>>

\* a text of three spaces has been classified
C5_Witness ==
    /\ classified
    /\ probe.message = join(<<space, space>>, space)
    /\ probe.result.specialists = <<code_ai>>

\* C6: the selection has no identifier twice and holds only keys of the
\* registry
C6_SelectionDistinctAndRegistered ==
    classified =>
        LET sel == probe.result.specialists IN
        /\ \A i, j \in DOMAIN sel : i # j => sel[i] # sel[j]
        /\ \A i \in DOMAIN sel : sel[i] \in DOMAIN responses

\* "react component": two keywords of one group
C6_Witness ==
    /\ classified
    /\ probe.message = join(<<kw_react, kw_component>>, space)
    /\ probe.result.specialists = <<code_ai>>

C8_NoSuccessWithMissingRecord ==
    \A r \in DOMAIN reqs :
        LET sel == selectionOf(r)
            missing ==
              \/ ~\E n \in DOMAIN messages :
                     messages[n].round = r /\ messages[n].role = "coordinator"
              \/ \E i \in DOMAIN sel :
                     ~\E n \in DOMAIN messages :
                         /\ messages[n].round = r
                         /\ messages[n].role = "assistant"
                         /\ messages[n].specialist = sel[i]
        IN (reqs[r].pc = "done" /\ "content" \in DOMAIN reqs[r].body /\ missing) =>
              reqs[r].status \in {400, 404, 500}

\* a round ended with an error after its coordinator record and its first
\* specialist record were appended: the second specialist's record is missing
C8_Witness ==
    \E r \in DOMAIN reqs :
        /\ reqs[r].status = 500
        /\ selectionOf(r) = <<code_ai, design_ai>>
        /\ Len(coordinateRecords(r)) = 2

\* C9 (as claimed): the records of a round are contiguous in the table of
\* its conversation: no record of another round of the same conversation
\* lies between two of them
C9_RoundsContiguous ==
    \A i, j, k \in DOMAIN messages :
        ( /\ i < j /\ j < k
          /\ messages[i].round = messages[k].round
          /\ messages[j].conversationId = messages[i].conversationId ) =>
            messages[j].round = messages[i].round

\* C10: every coordinator or assistant record comes after the user message
\* of its round, and a round whose user message was not appended has no
\* record at all
C10_UserMessageFirst ==
    /\ \A n \in DOMAIN messages :
         messages[n].role # "user" =>
            \E u \in 1..(n - 1) :
                /\ messages[u].round = messages[n].round
                /\ messages[u].role = "user"
                /\ messages[u].content = reqs[messages[n].round].body.content
                /\ messages[u].conversationId = messages[n].conversationId
    /\ \A r \in DOMAIN reqs :
         (reqs[r].pc \notin {"getConversation", "createUserMessage"}
             /\ reqs[r].userMessage = noMessage) => roundRecords(r) = <<>>

\* the append of one round's user message failed, and another round has
\* appended its coordinator record
C10_Witness ==
    /\ \E r \in DOMAIN reqs :
         /\ reqs[r].status = 500
         /\ reqs[r].userMessage = noMessage
         /\ roundRecords(r) = <<>>
    /\ \E n \in DOMAIN messages : messages[n].role = "coordinator"

\* the rationale of the classifier for each posted text
analysisByText == [t \in PostTexts |-> analyzeMessage(t).analysis]

\* the requesting user of request r owns the conversation it names
owns(r) == getConversation(conversations, reqs[r].conversationId, reqs[r].userId)

\* request r has appended nothing and has called neither the classifier nor
\* a handler
untouched(r) ==
    /\ roundRecords(r) = <<>>
    /\ reqs[r].coordinatorResponse = noCoordinatorResponse
    /\ reqs[r].invoked = <<>>

\* C11: a request for a conversation that does not exist or is not the
\* requesting user's is answered 404 as soon as the ownership check has
\* returned, and it appends no record and calls no classifier and no handler
C11_NotOwnedIsNotFound ==
    \A r \in DOMAIN reqs :
        ~owns(r) =>
            /\ untouched(r)
            /\ \/ reqs[r].pc = "getConversation"
               \/ reqs[r].pc = "done" /\ reqs[r].status = 404

\* u2 asked for the conversation of u1 with a valid body and got 404
C11_Witness ==
    \E r \in DOMAIN reqs :
        /\ reqs[r].userId = "u2" /\ reqs[r].conversationId = 1
        /\ schemaAccepts(reqs[r].body)
        /\ reqs[r].status = 404

\* C12: the first record coordinateAIResponse appends in a round has role
\* coordinator, specialist "coordinator", the classifier's rationale as its
\* content and the classifier's selection as metadata.specialists; in a
\* successful round that list is, element by element, the specialist fields
\* of the assistant records after it
C12_CoordinatorRecord ==
    \A r \in DOMAIN reqs :
        LET recs == coordinateRecords(r) IN
        Len(recs) > 0 =>
            /\ recs[1].role = "coordinator"
            /\ recs[1].specialist = coordinator
            /\ recs[1].content = analysisByText[reqs[r].body.content]
            /\ recs[1].metadata.specialists = selectionOf(r)
            /\ reqs[r].status = 200 =>
                 /\ Len(recs) = 1 + Len(recs[1].metadata.specialists)
                 /\ \A i \in DOMAIN recs[1].metadata.specialists :
                      recs[i + 1].specialist = recs[1].metadata.specialists[i]

\* a successful round whose coordinator record lists code_ai and design_ai
C12_Witness ==
    \E r \in DOMAIN reqs :
        /\ reqs[r].status = 200
        /\ Len(coordinateRecords(r)) = 3
        /\ coordinateRecords(r)[1].metadata.specialists = <<code_ai, design_ai>>

\* the number of records a round has appended when the createMessage call
\* for insert throws, idx being the position of the loop
appendedBefore(insert, idx) ==
    CASE insert.role = "user" -> 0
      [] insert.role = "coordinator" -> 1
      [] insert.role = "assistant" -> 1 + idx

\* C14: once a createMessage call of a round has thrown, the round has ended
\* with an error response, and the table holds just the records the round
\* had appended before (the failed record is not appended later, nor any
\* other), and no handler was called after the failure
C14_StoreFailureIsFatal ==
    \A r \in DOMAIN reqs :
        reqs[r].storeFailed =>
            /\ reqs[r].pc = "done" /\ reqs[r].status = 500
            /\ Len(roundRecords(r)) = appendedBefore(reqs[r].insert, reqs[r].idx)
            /\ Len(reqs[r].invoked) =
                 IF reqs[r].insert.role = "assistant" THEN reqs[r].idx ELSE 0

\* the append of the coordinator record of a round of two specialists
\* failed, and the table has grown since
C14_Witness ==
    \E r \in DOMAIN reqs :
        /\ reqs[r].storeFailed
        /\ reqs[r].insert.role = "coordinator"
        /\ reqs[r].insert.metadata.specialists = <<code_ai, design_ai>>
        /\ messages[Len(messages)].round # r

\* C18: the list a successful round returns is the sequence of the records
\* the round appended after the user message, as the table holds them (with
\* their identifiers), in table order
C18_ReturnedListIsAppended ==
    \A r \in DOMAIN reqs :
        reqs[r].status = 200 =>
            LET list == reqs[r].json.aiResponses IN
            /\ list = coordinateRecords(r)
            /\ \A i \in DOMAIN list :
                 /\ list[i] = messages[list[i].id]
                 /\ list[i].round = r
                 /\ list[i] # reqs[r].json.userMessage

\* a returned list of three records with another round's record between the
\* second and the third
C18_Witness ==
    \E r \in DOMAIN reqs :
        /\ reqs[r].status = 200
        /\ Len(reqs[r].json.aiResponses) = 3
        /\ reqs[r].json.aiResponses[3].id > reqs[r].json.aiResponses[2].id + 1

\* C20: a request that passed the ownership check and whose body the schema
\* rejects is answered 400, and it appends no record and calls no classifier
\* and no handler
C20_InvalidBodyAppendsNothing ==
    \A r \in DOMAIN reqs :
        (owns(r) /\ ~schemaAccepts(reqs[r].body)) =>
            /\ untouched(r)
            /\ \/ reqs[r].pc = "getConversation"
               \/ reqs[r].pc = "done" /\ reqs[r].status = 400

\* a body without content was answered 400 while the table holds records of
\* another round
C20_Witness ==
    \E r \in DOMAIN reqs :
        /\ reqs[r].status = 400
        /\ reqs[r].json.message = msgInvalid
        /\ Len(messages) > 0

\* every underscore of s replaced by a space
replaceEveryUnderscore(s) ==
    [i \in 1..Len(s) |-> IF s[i] = "_" THEN " " ELSE s[i]]

rationaleAsClaimed(specialists) ==
    analysisPrefix \o
    join([i \in 1..Len(specialists) |-> replaceEveryUnderscore(specialists[i])],
         commaSpace)

C15_HandlersCalledTogether ==
    \A r \in DOMAIN reqs :
        reqs[r].pc \in {"createCoordinatorMessage", "getSpecialistResponse",
                        "createSpecialistMessage"} =>
            reqs[r].invoked = reqs[r].coordinatorResponse.specialists

pendingSends == {i \in DOMAIN client.sends : client.sends[i].pc # "done"}

\* C19 (as claimed): the chat page never has two sends in flight
C19_OneSendInFlight ==
    Cardinality(pendingSends) <= 1

\* send i was started with no conversation selected
startedUnselected(i) == client.sends[i].startedWith = 0

\* send i has posted its message (the POST is in flight or answered)
posted(i) ==
    \/ client.sends[i].pc = "postMessage"
    \/ client.sends[i].pc = "done" /\ client.sends[i].conversationId # 0

\* the sends started with no conversation selected: nothing is posted
\* before the creation has succeeded; a posted message went to the
\* conversation created for its send, a conversation of the user, titled
\* after the message and shared with no other send; a send whose creation
\* failed ended in an error and posted nothing
createdThenPosted ==
    \A i \in DOMAIN client.sends :
        startedUnselected(i) =>
            LET send == client.sends[i] IN
            /\ send.pc = "createConversation" =>
                 send.created = 0 /\ send.conversationId = 0
            /\ posted(i) =>
                 /\ send.created # 0
                 /\ send.conversationId = send.created
                 /\ send.created \in getConversations(conversations, clientUser)
                 /\ conversations[send.created].title = conversationTitle(send.content)
                 /\ \A j \in DOMAIN client.sends :
                      j # i => client.sends[j].created # send.created
            /\ (send.pc = "done" /\ send.created = 0) =>
                 send.status = "error" /\ send.conversationId = 0

\* C21: a send started with no conversation selected creates a conversation
\* first and posts its message only after the creation has succeeded, to
\* the new conversation, which becomes the current conversation at that
\* step; each such message is in a conversation created for it, and a
\* failed creation posts no message
C21_CreateThenPost ==
    [][ /\ createdThenPosted'
        /\ \A i \in DOMAIN client.sends :
             (client.sends[i].created = 0 /\ client'.sends[i].created # 0) =>
                 /\ client'.currentConversationId = client'.sends[i].created
                 /\ client'.sends[i].pc = "postMessage"
                 /\ client'.sends[i].created = Len(conversations')
                 /\ Len(conversations') = Len(conversations) + 1 ]_vars

\* two sends started with no conversation selected: one was answered
\* after its message went to the conversation created for it, the creation
\* of the other failed
C21_Witness ==
    \E i, j \in DOMAIN client.sends :
        /\ startedUnselected(i) /\ startedUnselected(j)
        /\ client.sends[i].status = "success" /\ client.sends[i].created # 0
        /\ client.sends[j].status = "error" /\ client.sends[j].created = 0
        /\ client.sends[j].pc = "done"

====
